---- MODULE Spec2Model ----
(***************************************************************************)
(* Model of vue-gtm's src/index.ts: the plugin's install procedure, the    *)
(* vue-router afterEach guard it registers, and useGtm().                  *)
(*                                                                         *)
(* JavaScript strings that the code inspects character by character (the   *)
(* router base, to.fullPath) are sequences of one-character strings.       *)
(* JavaScript values whose type the code tests (to.name, to.meta.gtm) are  *)
(* records [type, val] where type is what typeof yields.  Plain objects    *)
(* that the code spreads (additional event data, query parameters) are     *)
(* sets of <<key, value>> pairs with at most one pair per key.             *)
(***************************************************************************)
EXTENDS Integers, Sequences, FiniteSets, TLC

VARIABLES
    inBrowser,      \* what gtmPlugin.isInBrowserContext() answers in this process
    routerBase,     \* vueRouter.options.base of every router
    gtmPlugin,      \* the module-level `let gtmPlugin` (0 = undefined)
    vuePrototypeGtm,\* Vue.prototype.$gtm (0 = undefined)
    vueGtm,         \* Vue.gtm (0 = undefined)
    nInstalls,      \* number of GtmPlugin instances constructed so far
    plugins,        \* the options of every GtmPlugin instance, in order of construction
    hooks,          \* the afterEach hooks registered on every router, in order
    loadCalls,      \* the loadScript(id, options) calls made so far, in order
    handlers,       \* every invocation of an afterEach callback, in order
    nNavs,          \* number of completed navigations so far
    tickQueue,      \* callbacks handed to Vue.nextTick and not yet run
    trackCalls      \* trackCalls[h]: the trackView(name, url, data) calls that
                    \* invocation h of a callback has made so far, in order

vars == <<inBrowser, routerBase, gtmPlugin, vuePrototypeGtm, vueGtm, nInstalls,
          plugins, hooks, loadCalls, handlers, nNavs, tickQueue, trackCalls>>

-----------------------------------------------------------------------------
(* Bounds *)

MaxInstalls == 2
MaxNavs == 2
MaxHandlers == 4

-----------------------------------------------------------------------------
(* JavaScript values *)

Str(s) == [type |-> "string", val |-> s]
Undefined == [type |-> "undefined", val |-> ""]
Null == [type |-> "object", val |-> "null"]
Num(s) == [type |-> "number", val |-> s]

TypeOf(v) == v.type

\* !!v for the values above: undefined, null and '' are falsy
Truthy(v) ==
    CASE v.type = "string" -> v.val # ""
      [] v.type = "number" -> v.val \notin {"0", "NaN"}
      [] OTHER -> FALSE

\* { ...a, ...b }: the keys of b win
Spread(a, b) == b \cup {p \in a : \A q \in b : q[1] # p[1]}

EndsWith(s, c) == Len(s) > 0 /\ s[Len(s)] = c
StartsWith(s, c) == Len(s) > 0 /\ s[1] = c
Substring(s, from) == SubSeq(s, from + 1, Len(s))

NoRouter == "none"
Routers == {"r1", "r2"}

NoMeta == [present |-> FALSE, gtm |-> Undefined, gtmAdditionalEventData |-> {}]
Meta(gtm, data) == [present |-> TRUE, gtm |-> gtm, gtmAdditionalEventData |-> data]
Route(name, meta, fullPath) == [name |-> name, meta |-> meta, fullPath |-> fullPath]

NoBase == [present |-> FALSE, val |-> <<>>]
Base(s) == [present |-> TRUE, val |-> s]

-----------------------------------------------------------------------------
(* Options (VueGtmUseOptions) *)

\* ignoredViews?: string[] | ((to, from) => boolean)
NoIgnoredViews == [kind |-> "undefined", list |-> <<>>]
IgnoredList(l) == [kind |-> "array", list |-> l]
IgnoredFn == [kind |-> "function", list |-> <<>>]

\* the user's ignoredViews predicate: ignores every navigation that leaves
\* the route named 'admin' and every navigation to a path under '/x'
IgnoredViewsFn(to, from) ==
    \/ from.name = Str("admin")
    \/ (Len(to.fullPath) >= 2 /\ SubSeq(to.fullPath, 1, 2) = <<"/", "x">>)

\* the user's vueRouterAdditionalEventData: what it returns (or resolves to)
UserEventData(to, from) ==
    {<<"x", "1">>} \cup
    (IF from.name = Str("admin") THEN {<<"from", "admin">>} ELSE {})

\* deriveAdditionalEventData's default: () => ({})
DefaultEventData(to, from) == {}

\* one element of options.id: a string, or a GtmIdContainer { id, queryParams? }
IdString(id) == [isString |-> TRUE, id |-> id, hasQueryParams |-> FALSE, queryParams |-> {}]
IdContainer(id) == [isString |-> FALSE, id |-> id, hasQueryParams |-> FALSE, queryParams |-> {}]
IdContainerQP(id, qp) == [isString |-> FALSE, id |-> id, hasQueryParams |-> TRUE, queryParams |-> qp]

SingleId(id) == [isArray |-> FALSE, items |-> <<IdString(id)>>]
IdArray(items) == [isArray |-> TRUE, items |-> items]

\* enabled and loadScript are the values GtmPlugin's constructor leaves in
\* gtmPlugin.options; trackOnNextTick is "undefined", "false" or "true"
Options(id, queryParams, enabled, loadScript, vueRouter, ignoredViews, tick, deriver) ==
    [id |-> id, queryParams |-> queryParams, enabled |-> enabled,
     loadScript |-> loadScript, vueRouter |-> vueRouter,
     ignoredViews |-> ignoredViews, trackOnNextTick |-> tick,
     vueRouterAdditionalEventData |-> deriver]

\* install's default parameter: options = { id: '' }
OmittedOptions ==
    Options(SingleId(""), {}, TRUE, TRUE, NoRouter, NoIgnoredViews, "undefined", "undefined")

\* options = { trackOnNextTick: false, ...options }
ApplyDefaults(options) ==
    [options EXCEPT !.trackOnNextTick = IF @ = "undefined" THEN "false" ELSE @]

-----------------------------------------------------------------------------
(* install *)

\* a faulty install that forgets the static accessor Vue.gtm
PublishWithoutStatic(p) == [gtmPlugin |-> p, vuePrototypeGtm |-> p, vueGtm |-> vueGtm]

\* gtmPlugin = new GtmPlugin(options); Vue.prototype.$gtm = Vue.gtm = gtmPlugin
Publish(p) == [gtmPlugin |-> p, vuePrototypeGtm |-> p, vueGtm |-> p]

\* the hook that initVueRouterGuard hands to vueRouter.afterEach, with the
\* parameters it closes over (defaults applied)
Guard(ignoredViews, trackOnNextTick, deriver, p) ==
    [ignoredViews |-> IF ignoredViews.kind = "undefined" THEN IgnoredList(<<>>)
                      ELSE ignoredViews,
     trackOnNextTick |-> trackOnNextTick,
     deriver |-> IF deriver = "undefined" THEN "default" ELSE deriver,
     install |-> p]

\* a faulty initVueRouterGuard that registers its hook twice
InitVueRouterGuardTwice(vueRouter, ignoredViews, trackOnNextTick, deriver, p) ==
    IF vueRouter = NoRouter
    THEN hooks
    ELSE [hooks EXCEPT ![vueRouter] =
              Append(Append(@, Guard(ignoredViews, trackOnNextTick, deriver, p)),
                     Guard(ignoredViews, trackOnNextTick, deriver, p))]

InitVueRouterGuard(vueRouter, ignoredViews, trackOnNextTick, deriver, p) ==
    IF vueRouter = NoRouter
    THEN hooks
    ELSE [hooks EXCEPT ![vueRouter] =
              Append(@, Guard(ignoredViews, trackOnNextTick, deriver, p))]

\* the loadScript call made for one element of options.id
LoadScriptCall(item, options, p) ==
    [install |-> p, id |-> item.id,
     queryParams |-> IF item.isString \/ ~item.hasQueryParams
                     THEN options.queryParams
                     ELSE Spread(options.queryParams, item.queryParams)]

\* a faulty install that loads the script whenever tracking is enabled
LoadScriptsIgnoringLoadFlag(options, p) ==
    IF options.enabled
    THEN [i \in 1..Len(options.id.items) |-> LoadScriptCall(options.id.items[i], options, p)]
    ELSE <<>>

\* the loadScript calls of one install, in order
LoadScripts(options, p) ==
    IF options.enabled /\ options.loadScript
    THEN [i \in 1..Len(options.id.items) |-> LoadScriptCall(options.id.items[i], options, p)]
    ELSE <<>>

Install(given) ==
    /\ nInstalls < MaxInstalls
    /\ LET options == ApplyDefaults(given)
           p == nInstalls + 1
       IN  /\ nInstalls' = p
           /\ gtmPlugin' = Publish(p).gtmPlugin
           /\ vuePrototypeGtm' = Publish(p).vuePrototypeGtm
           /\ vueGtm' = Publish(p).vueGtm
           /\ plugins' = Append(plugins, options)
           /\ IF inBrowser
              THEN /\ hooks' = IF options.vueRouter # NoRouter
                               THEN InitVueRouterGuard(options.vueRouter,
                                        options.ignoredViews, options.trackOnNextTick,
                                        options.vueRouterAdditionalEventData, p)
                               ELSE hooks
                   /\ loadCalls' = loadCalls \o LoadScripts(options, p)
              ELSE UNCHANGED <<hooks, loadCalls>>
    /\ UNCHANGED <<inBrowser, routerBase, handlers, nNavs, tickQueue, trackCalls>>

\* useGtm()
UseGtm == gtmPlugin

-----------------------------------------------------------------------------
(* the afterEach callback *)

Includes(list, s) == \E i \in 1..Len(list) : list[i] = s

\* a faulty filter that does not test the type of to.name
IgnoredWithoutTypeTest(guard, to, from) ==
    \/ (guard.ignoredViews.kind = "array" /\ Includes(guard.ignoredViews.list, to.name.val))
    \/ (guard.ignoredViews.kind = "function" /\ IgnoredViewsFn(to, from))

\* a faulty filter that never calls an ignoredViews function
IgnoredWithoutFunction(guard, to, from) ==
    \/ TypeOf(to.name) # "string"
    \/ (guard.ignoredViews.kind = "array" /\ Includes(guard.ignoredViews.list, to.name.val))

\* the condition of the callback's first if: the navigation is ignored
Ignored(guard, to, from) ==
    \/ TypeOf(to.name) # "string"
    \/ (guard.ignoredViews.kind = "array" /\ Includes(guard.ignoredViews.list, to.name.val))
    \/ (guard.ignoredViews.kind = "function" /\ IgnoredViewsFn(to, from))

\* a faulty name derivation that takes an empty meta.gtm too
EventNameWithoutEmptyTest(to) ==
    IF to.meta.present /\ TypeOf(to.meta.gtm) = "string"
    THEN to.meta.gtm
    ELSE to.name

\* const name = to.meta && typeof to.meta.gtm === 'string' && !!to.meta.gtm ? to.meta.gtm : to.name
EventName(to) ==
    IF to.meta.present /\ TypeOf(to.meta.gtm) = "string" /\ Truthy(to.meta.gtm)
    THEN to.meta.gtm
    ELSE to.name

\* what deriveAdditionalEventData(to, from) yields once it has resolved
Derived(guard, to, from) ==
    IF guard.deriver = "default" THEN DefaultEventData(to, from) ELSE UserEventData(to, from)

\* { ...(await deriveAdditionalEventData(to, from)), ...to.meta?.gtmAdditionalEventData }
AdditionalEventData(derived, to) ==
    Spread(derived, IF to.meta.present THEN to.meta.gtmAdditionalEventData ELSE {})

\* a faulty URL reconstruction that keeps the leading '/' of to.fullPath
FullUrlWithoutStrip(base, fullPath) ==
    LET baseUrl == IF base.present THEN base.val ELSE <<>>
        withSlash == IF ~EndsWith(baseUrl, "/") THEN baseUrl \o <<"/">> ELSE baseUrl
    IN  withSlash \o fullPath

\* baseUrl, then fullUrl as the callback builds it
FullUrl(base, fullPath) ==
    LET baseUrl == IF base.present THEN base.val ELSE <<>>
        withSlash == IF ~EndsWith(baseUrl, "/") THEN baseUrl \o <<"/">> ELSE baseUrl
    IN  withSlash \o (IF StartsWith(fullPath, "/") THEN Substring(fullPath, 1) ELSE fullPath)

\* faulty dispatches: one that ignores trackOnNextTick, one that always defers
DispatchModeNeverTick(guard) == "continuation"
DispatchModeAlwaysTick(guard) == "tick"

\* where the callback makes its trackView call once the await has resumed
DispatchMode(guard) == IF guard.trackOnNextTick = "true" THEN "tick" ELSE "continuation"

\* gtmPlugin?.trackView(name, fullUrl, additionalEventData); the record of a
\* call also says where it was made (phase) and how many navigations had
\* completed by then (navs)
TrackView(h, name, fullUrl, data, phase) ==
    IF gtmPlugin # 0
    THEN [trackCalls EXCEPT ![h] =
              Append(@, [plugin |-> gtmPlugin, name |-> name, url |-> fullUrl,
                         data |-> data, phase |-> phase, navs |-> nNavs])]
    ELSE trackCalls

\* One invocation of the callback is a record: pc is "filtered" (it returned
\* from its first if), "pending" (it awaits the deriver's promise), "resolved"
\* (the awaited value is there and its continuation is queued), "rejected"
\* (the deriver threw or its promise rejected, which ends the callback),
\* "scheduled" (it has handed its callback to Vue.nextTick and ended) or
\* "done" (its trackView statement has run); ticks counts its nextTick calls.
\*
\* HandlerStart is the callback's run up to its await, for the navigation nav = (to, from) on
\* `router`; outcome is what the user's deriver does when called: it returns
\* a record ("value"), returns a promise ("promise") or throws ("throw")
HandlerStart(router, g, nav, to, from, outcome) ==
    LET guard == hooks[router][g]
        rec(pc, invoked) == [nav |-> nav, router |-> router, guard |-> g, to |-> to,
                             from |-> from, pc |-> pc, deriverInvoked |-> invoked,
                             ticks |-> 0,
                             name |-> IF invoked THEN EventName(to) ELSE Undefined]
    IN  IF Ignored(guard, to, from) THEN rec("filtered", FALSE)
        ELSE IF guard.deriver = "default" \/ outcome = "value" THEN rec("resolved", TRUE)
        ELSE IF outcome = "promise" THEN rec("pending", TRUE)
        ELSE rec("rejected", TRUE)

DeriverOutcomes == {"value", "promise", "throw"}

\* the router completes a navigation and calls its afterEach hooks in order
Navigate(router, to, from, outcomes) ==
    /\ nNavs < MaxNavs
    /\ Len(handlers) + Len(hooks[router]) <= MaxHandlers
    /\ nNavs' = nNavs + 1
    /\ \E outcome \in [1..Len(hooks[router]) -> outcomes] :
          handlers' = handlers \o
              [g \in 1..Len(hooks[router]) |->
                  HandlerStart(router, g, nNavs + 1, to, from, outcome[g])]
    /\ trackCalls' = trackCalls \o [g \in 1..Len(hooks[router]) |-> <<>>]
    /\ UNCHANGED <<inBrowser, routerBase, gtmPlugin, vuePrototypeGtm, vueGtm, nInstalls,
                   plugins, hooks, loadCalls, tickQueue>>

\* the promise the deriver returned resolves
DeriverResolves(h) ==
    /\ h \in 1..Len(handlers)
    /\ handlers[h].pc = "pending"
    /\ handlers' = [handlers EXCEPT ![h].pc = "resolved"]
    /\ UNCHANGED <<inBrowser, routerBase, gtmPlugin, vuePrototypeGtm, vueGtm, nInstalls,
                   plugins, hooks, loadCalls, nNavs, tickQueue, trackCalls>>

\* the promise the deriver returned rejects: the await throws, the callback ends
DeriverRejects(h) ==
    /\ h \in 1..Len(handlers)
    /\ handlers[h].pc = "pending"
    /\ handlers' = [handlers EXCEPT ![h].pc = "rejected"]
    /\ UNCHANGED <<inBrowser, routerBase, gtmPlugin, vuePrototypeGtm, vueGtm, nInstalls,
                   plugins, hooks, loadCalls, nNavs, tickQueue, trackCalls>>

\* a faulty callback whose variables are shared by all its invocations, so
\* that a continuation reads those of the latest navigation
ClosureOfLatest(h) == handlers[Len(handlers)]

\* the variables of the callback's closure that its continuation reads
Closure(h) == handlers[h]

\* the callback resumes after its await and runs to its end
Resume(h) ==
    /\ h \in 1..Len(handlers)
    /\ handlers[h].pc = "resolved"
    /\ LET c == Closure(h)
           guard == hooks[c.router][c.guard]
           name == c.name
           additionalEventData == AdditionalEventData(Derived(guard, c.to, c.from), c.to)
           fullUrl == FullUrl(routerBase[c.router], c.to.fullPath)
       IN  IF DispatchMode(guard) = "tick"
           THEN /\ tickQueue' = Append(tickQueue, [handler |-> h, name |-> name,
                                    url |-> fullUrl, data |-> additionalEventData])
                /\ handlers' = [handlers EXCEPT ![h].pc = "scheduled",
                                                 ![h].ticks = @ + 1]
                /\ UNCHANGED trackCalls
           ELSE /\ trackCalls' = TrackView(h, name, fullUrl, additionalEventData,
                                           "continuation")
                /\ handlers' = [handlers EXCEPT ![h].pc = "done"]
                /\ UNCHANGED tickQueue
    /\ UNCHANGED <<inBrowser, routerBase, gtmPlugin, vuePrototypeGtm, vueGtm, nInstalls,
                   plugins, hooks, loadCalls, nNavs>>

\* Vue runs the oldest callback handed to nextTick
RunTick ==
    /\ tickQueue # <<>>
    /\ LET cb == Head(tickQueue)
       IN  /\ trackCalls' = TrackView(cb.handler, cb.name, cb.url, cb.data, "tick")
           /\ handlers' = [handlers EXCEPT ![cb.handler].pc = "done"]
    /\ tickQueue' = Tail(tickQueue)
    /\ UNCHANGED <<inBrowser, routerBase, gtmPlugin, vuePrototypeGtm, vueGtm, nInstalls,
                   plugins, hooks, loadCalls, nNavs>>

-----------------------------------------------------------------------------
(* Inputs *)

PathAB == <<"/", "a", "/", "b">>
PathC == <<"c">>
PathSlashC == <<"/", "c">>
PathSlashSlashC == <<"/", "/", "c">>
PathXY == <<"/", "x", "/", "y">>
BaseApp == <<"/", "a", "p", "p">>
BaseAppSlash == <<"/", "a", "p", "p", "/">>
BaseAppSlashSlash == <<"/", "a", "p", "p", "/", "/">>

Home == Route(Str("home"), NoMeta, PathAB)
Admin == Route(Str("admin"), NoMeta, PathC)
About == Route(Str("about"), Meta(Str("Checkout"), {<<"x", "2">>, <<"y", "3">>}), PathC)
Shop == Route(Str("shop"), Meta(Str(""), {}), PathSlashC)
Blog == Route(Str("blog"), Meta(Undefined, {<<"y", "3">>}), PathAB)
HomeX == Route(Str("home"), Meta(Num("7"), {}), PathXY)
Cart == Route(Str("cart"), Meta(Str("Checkout"), {}), PathSlashC)
EmptyName == Route(Str(""), Meta(Str(""), {}), PathSlashC)
EmptyNameGtm == Route(Str(""), Meta(Str("Checkout"), {}), PathSlashC)
Unnamed == Route(Undefined, Meta(Str("Checkout"), {}), PathSlashC)
NullName == Route(Null, NoMeta, PathAB)
NumberName == Route(Num("42"), Meta(Str("Checkout"), {}), PathC)

FromRoutes == {Home, Admin}

GtmA == "GTM-A"
GtmB == "GTM-B"
QueryParams == {<<"a", "0">>, <<"b", "2">>}

\* the guard-related options with everything else at the same value
GuardOptions(vueRouter, ignoredViews, trackOnNextTick, deriver) ==
    Options(SingleId(GtmA), {}, TRUE, TRUE, vueRouter, ignoredViews, trackOnNextTick,
            deriver)

Init ==
    /\ inBrowser \in BOOLEAN
    /\ routerBase = [r \in Routers |-> IF r = "r1" THEN NoBase ELSE Base(BaseApp)]
    /\ gtmPlugin = 0
    /\ vuePrototypeGtm = 0
    /\ vueGtm = 0
    /\ nInstalls = 0
    /\ plugins = <<>>
    /\ hooks = [r \in Routers |-> <<>>]
    /\ loadCalls = <<>>
    /\ handlers = <<>>
    /\ nNavs = 0
    /\ tickQueue = <<>>
    /\ trackCalls = <<>>

-----------------------------------------------------------------------------
(* Any number of installs, on either router, followed or interleaved with  *)
(* navigations.                                                            *)

MultiOptions ==
    {OmittedOptions,
     GuardOptions("r1", NoIgnoredViews, "undefined", "undefined"),
     GuardOptions("r1", NoIgnoredViews, "true", "user"),
     GuardOptions("r2", NoIgnoredViews, "false", "user")}

MultiRoutes == {Home, Unnamed}

Next ==
    \/ \E o \in MultiOptions : Install(o)
    \/ \E r \in Routers, to \in MultiRoutes : Navigate(r, to, Admin, DeriverOutcomes)
    \/ \E h \in 1..MaxHandlers : DeriverResolves(h)
    \/ \E h \in 1..MaxHandlers : DeriverRejects(h)
    \/ \E h \in 1..MaxHandlers : Resume(h)
    \/ RunTick

Spec == Init /\ [][Next]_vars

-----------------------------------------------------------------------------
(* Installs alone, over the options that decide script loading.            *)

InstallIds ==
    {SingleId(GtmA),
     IdArray(<<IdString(GtmA), IdContainerQP(GtmB, {<<"a", "1">>}), IdString(GtmA)>>),
     IdArray(<<IdContainer(GtmB)>>)}

InstallOptions ==
    {OmittedOptions} \cup
    {Options(id, QueryParams, enabled, loadScript, vueRouter, NoIgnoredViews,
             "undefined", "undefined") :
        id \in InstallIds, enabled \in BOOLEAN, loadScript \in BOOLEAN,
        vueRouter \in {NoRouter, "r1"}}

NextInstall == \E o \in InstallOptions : Install(o)

SpecInstall == Init /\ [][NextInstall]_vars

-----------------------------------------------------------------------------
(* One install (Vue.use installs a plugin once), then navigations over     *)
(* routes of every shape the callback distinguishes.                       *)

InstallOnce(o) == nInstalls = 0 /\ Install(o)

GuardOptionsSet ==
    {GuardOptions("r1", ignoredViews, trackOnNextTick, "user") :
        ignoredViews \in {NoIgnoredViews, IgnoredList(<<"about", "shop">>), IgnoredFn},
        trackOnNextTick \in {"undefined", "true"}}

GuardRoutes ==
    {Home, About, Shop, Blog, HomeX, Cart, EmptyName, EmptyNameGtm, Unnamed, NullName,
     NumberName}

NextGuard ==
    \/ \E o \in GuardOptionsSet : InstallOnce(o)
    \/ \E to \in GuardRoutes, from \in FromRoutes : Navigate("r1", to, from, {"value"})
    \/ \E h \in 1..MaxHandlers : Resume(h)
    \/ RunTick

SpecGuard == Init /\ [][NextGuard]_vars

-----------------------------------------------------------------------------
(* One install on a router of any base, then navigations to any path.      *)

UrlBases ==
    {NoBase, Base(<<>>), Base(<<"/">>), Base(BaseApp), Base(BaseAppSlash),
     Base(BaseAppSlashSlash)}

UrlPaths == {<<>>, <<"/">>, PathAB, PathC, PathSlashC, PathSlashSlashC}

UrlOptions ==
    {GuardOptions("r1", NoIgnoredViews, trackOnNextTick, "undefined") :
        trackOnNextTick \in {"undefined", "true"}}

InitUrl ==
    /\ inBrowser = TRUE
    /\ routerBase \in [Routers -> UrlBases]
    /\ routerBase["r2"] = NoBase
    /\ gtmPlugin = 0
    /\ vuePrototypeGtm = 0
    /\ vueGtm = 0
    /\ nInstalls = 0
    /\ plugins = <<>>
    /\ hooks = [r \in Routers |-> <<>>]
    /\ loadCalls = <<>>
    /\ handlers = <<>>
    /\ nNavs = 0
    /\ tickQueue = <<>>
    /\ trackCalls = <<>>

NextUrl ==
    \/ \E o \in UrlOptions : InstallOnce(o)
    \/ \E path \in UrlPaths : Navigate("r1", Route(Str("home"), NoMeta, path), Admin, {"value"})
    \/ \E h \in 1..MaxHandlers : Resume(h)
    \/ RunTick

SpecUrl == InitUrl /\ [][NextUrl]_vars

-----------------------------------------------------------------------------
(* Navigations that overlap: one install, then navigations whose derivers may *)
(* still be pending, or whose nextTick callbacks may still be queued, when *)
(* the next navigation completes.  The event loop runs every queued        *)
(* continuation and every queued nextTick callback.                        *)

LiveOptions ==
    {GuardOptions("r1", NoIgnoredViews, trackOnNextTick, "user") :
        trackOnNextTick \in {"undefined", "true"}}

LiveRoutes == {Home, About}

NextLive ==
    \/ \E o \in LiveOptions : InstallOnce(o)
    \/ \E to \in LiveRoutes, from \in FromRoutes : Navigate("r1", to, from, DeriverOutcomes)
    \/ \E h \in 1..MaxHandlers : DeriverResolves(h)
    \/ \E h \in 1..MaxHandlers : DeriverRejects(h)
    \/ \E h \in 1..MaxHandlers : Resume(h)
    \/ RunTick

SpecLive ==
    /\ Init
    /\ [][NextLive]_vars
    /\ \A h \in 1..MaxHandlers : WF_vars(Resume(h))
    /\ WF_vars(RunTick)

-----------------------------------------------------------------------------
(* Claims checked under Spec *)

GuardOf(h) == hooks[handlers[h].router][handlers[h].guard]

Handlers == 1..Len(handlers)

RECURSIVE SumCalls(_, _, _)
\* the trackView calls made by the first h invocations that belong to
\* navigation n on router r
SumCalls(n, r, h) ==
    IF h = 0 THEN 0
    ELSE SumCalls(n, r, h - 1) +
         (IF handlers[h].nav = n /\ handlers[h].router = r THEN Len(trackCalls[h]) ELSE 0)

CallsOfNavigation(n, r) == SumCalls(n, r, Len(handlers))

InstallsWith(r) == Cardinality({p \in 1..Len(plugins) : plugins[p].vueRouter = r})

QueuedFor(h) == Cardinality({i \in 1..Len(tickQueue) : tickQueue[i].handler = h})

\* C2 as stated: whatever installs were made, one completed navigation
\* results in at most one trackView call.
C2_AtMostOneCallPerNavigation ==
    \A n \in 1..nNavs, r \in Routers : CallsOfNavigation(n, r) <= 1

\* C2 amended: every invocation of the guard's callback makes at most one
\* trackView call, and the calls of one completed navigation number at most
\* the installs that were given the navigation's router (so 0 or 1 when at
\* most one install was given it).
C2_AtMostOneCallPerInstalledGuard ==
    /\ \A h \in Handlers : Len(trackCalls[h]) <= 1
    /\ \A n \in 1..nNavs, r \in Routers :
          /\ CallsOfNavigation(n, r) <= InstallsWith(r)
          /\ InstallsWith(r) <= 1 => CallsOfNavigation(n, r) <= 1

C2_Witness ==
    \E n \in 1..nNavs, r \in Routers :
        InstallsWith(r) = 2 /\ CallsOfNavigation(n, r) = 2

\* C6 as stated, its count: with trackOnNextTick = true every navigation
\* that passes the filter has exactly one nextTick callback scheduled for it
\* once its callback has ended.
C6_OneCallbackPerUnfilteredNavigation ==
    \A h \in Handlers :
        (GuardOf(h).trackOnNextTick = "true" /\ handlers[h].pc \in {"rejected", "done"})
            => handlers[h].ticks = 1

\* C6 amended: with trackOnNextTick = true no trackView call is made in the
\* callback's synchronous run or in its continuation, only by a callback
\* handed to nextTick; the continuation of a navigation whose deriver
\* resolved hands over exactly one such callback (none is handed over when
\* the deriver throws or rejects), and that callback, when run, makes exactly
\* one trackView call.
C6_TrackOnlyInNextTick ==
    \A h \in Handlers :
        GuardOf(h).trackOnNextTick = "true" =>
            /\ \A i \in 1..Len(trackCalls[h]) : trackCalls[h][i].phase = "tick"
            /\ handlers[h].ticks = (IF handlers[h].pc \in {"scheduled", "done"} THEN 1 ELSE 0)
            /\ QueuedFor(h) = (IF handlers[h].pc = "scheduled" THEN 1 ELSE 0)
            /\ Len(trackCalls[h]) = (IF handlers[h].pc = "done" THEN 1 ELSE 0)

C6_Witness ==
    \E h \in Handlers :
        /\ GuardOf(h).trackOnNextTick = "true"
        /\ handlers[h].pc = "done"
        /\ Len(trackCalls[h]) = 1
        /\ trackCalls[h][1].phase = "tick"

\* C7 as stated: with trackOnNextTick false or omitted the trackView call of
\* a navigation that passes the filter has been made by the time the
\* callback yields control, i.e. in every state in which the invocation
\* exists with its deriver's value there.
C7_CallMadeBeforeHandlerYields ==
    \A h \in Handlers :
        (GuardOf(h).trackOnNextTick # "true" /\ handlers[h].pc \in {"resolved", "done"})
            => Len(trackCalls[h]) = 1

\* C7 amended: with trackOnNextTick false or omitted the trackView call is
\* made by the continuation that resumes after the await of the deriver's
\* result (also for a synchronous or the default deriver), hence after the
\* callback has yielded control; it is never handed to nextTick, and the
\* continuation makes exactly one call.
C7_CallMadeInContinuation ==
    \A h \in Handlers :
        GuardOf(h).trackOnNextTick # "true" =>
            /\ \A i \in 1..Len(trackCalls[h]) : trackCalls[h][i].phase = "continuation"
            /\ handlers[h].ticks = 0
            /\ QueuedFor(h) = 0
            /\ handlers[h].pc # "scheduled"
            /\ Len(trackCalls[h]) = (IF handlers[h].pc = "done" THEN 1 ELSE 0)

C7_Witness ==
    \E h \in Handlers :
        /\ GuardOf(h).trackOnNextTick # "true"
        /\ GuardOf(h).deriver = "default"
        /\ handlers[h].pc = "done"
        /\ Len(trackCalls[h]) = 1
        /\ trackCalls[h][1].phase = "continuation"

-----------------------------------------------------------------------------
(* Claims checked under SpecInstall *)

\* C8: after any sequence of installs useGtm(), Vue.prototype.$gtm and
\* Vue.gtm are the same instance, the one the most recent install created,
\* in a browser context or not; before the first install useGtm() is undefined.
C8_SameSingletonEverywhere ==
    /\ UseGtm = vuePrototypeGtm
    /\ UseGtm = vueGtm
    /\ UseGtm = Len(plugins)
    /\ (Len(plugins) = 0 => UseGtm = 0)

C8_Witness ==
    /\ ~inBrowser
    /\ Len(plugins) >= 2
    /\ UseGtm = Len(plugins)
    /\ vueGtm = Len(plugins)

CallsOfInstall(p) == SelectSeq(loadCalls, LAMBDA c : c.install = p)

IdsOf(calls) == [i \in 1..Len(calls) |-> calls[i].id]

\* C9: an install calls loadScript once per configured container id, in
\* list order, when in a browser context with tracking and script loading
\* enabled, and never otherwise; outside a browser context it registers no
\* navigation guard either.
C9_LoadScriptOncePerId ==
    /\ \A p \in 1..Len(plugins) :
          IF inBrowser /\ plugins[p].enabled /\ plugins[p].loadScript
          THEN /\ Len(CallsOfInstall(p)) = Len(plugins[p].id.items)
               /\ \A i \in 1..Len(plugins[p].id.items) :
                     CallsOfInstall(p)[i].id = plugins[p].id.items[i].id
          ELSE Len(CallsOfInstall(p)) = 0
    /\ (~inBrowser => \A r \in Routers : Len(hooks[r]) = 0)

C9_Witness ==
    /\ inBrowser
    /\ \E p \in 1..Len(plugins) :
          /\ plugins[p].id.isArray
          /\ IdsOf(CallsOfInstall(p)) = <<GtmA, GtmB, GtmA>>
    /\ \E p \in 1..Len(plugins) :
          /\ plugins[p].enabled /\ ~plugins[p].loadScript
          /\ Len(CallsOfInstall(p)) = 0

-----------------------------------------------------------------------------
(* Claims checked under SpecGuard *)

NoTrace(h) ==
    /\ handlers[h].pc = "filtered"
    /\ Len(trackCalls[h]) = 0
    /\ QueuedFor(h) = 0
    /\ handlers[h].ticks = 0

\* C1 as stated: a navigation whose to.name is falsy (undefined, null, '')
\* or not a string never leads to a trackView call.
C1_FalsyOrNonStringNameNeverTracked ==
    \A h \in Handlers :
        (~Truthy(handlers[h].to.name) \/ TypeOf(handlers[h].to.name) # "string")
            => (Len(trackCalls[h]) = 0 /\ QueuedFor(h) = 0)

\* C1 amended: a navigation whose to.name is not a string (undefined, null,
\* a number) never leads to a trackView call, now or on a later tick,
\* whatever the ignore filter, the route meta and trackOnNextTick are; the
\* empty string is a string and is not filtered by this test.
C1_NonStringNameNeverTracked ==
    \A h \in Handlers :
        TypeOf(handlers[h].to.name) # "string" => NoTrace(h)

C1_Witness ==
    \E h \in Handlers :
        /\ handlers[h].to = Unnamed
        /\ GuardOf(h).trackOnNextTick = "true"
        /\ GuardOf(h).ignoredViews.kind = "function"
        /\ nNavs > handlers[h].nav
        /\ NoTrace(h)

\* C3: a navigation whose to.name is in the ignoredViews list, or for which
\* the ignoredViews function returns true, leads to no trackView call, now or
\* on a later tick, and the deriver is not called for it.
C3_IgnoredViewsNeverTracked ==
    \A h \in Handlers :
        LET to == handlers[h].to
            ignoredViews == GuardOf(h).ignoredViews
        IN  (\/ /\ ignoredViews.kind = "array"
                /\ \E i \in 1..Len(ignoredViews.list) : Str(ignoredViews.list[i]) = to.name
             \/ /\ ignoredViews.kind = "function"
                /\ IgnoredViewsFn(to, handlers[h].from))
            => (NoTrace(h) /\ ~handlers[h].deriverInvoked)

C3_Witness ==
    \E h \in Handlers :
        /\ GuardOf(h).ignoredViews.kind = "function"
        /\ TypeOf(handlers[h].to.name) = "string"
        /\ IgnoredViewsFn(handlers[h].to, handlers[h].from)
        /\ GuardOf(h).trackOnNextTick = "true"
        /\ nNavs > handlers[h].nav
        /\ NoTrace(h)

\* the event name as the claim words it
NameByCases(to) ==
    CASE ~to.meta.present -> to.name
      [] to.meta.gtm = Undefined -> to.name
      [] to.meta.gtm = Str("") -> to.name
      [] to.meta.gtm.type # "string" -> to.name
      [] OTHER -> to.meta.gtm

\* C4: the event name passed to trackView is to.meta.gtm when that is a
\* non-empty string and to.name in every other case (no meta, no meta.gtm,
\* empty meta.gtm, meta.gtm not a string); it does not depend on `from`.
C4_EventName ==
    /\ \A h \in Handlers : \A i \in 1..Len(trackCalls[h]) :
          trackCalls[h][i].name = NameByCases(handlers[h].to)
    /\ \A i \in 1..Len(tickQueue) :
          tickQueue[i].name = NameByCases(handlers[tickQueue[i].handler].to)
    /\ \A h1 \in Handlers, h2 \in Handlers :
          (handlers[h1].to = handlers[h2].to /\ trackCalls[h1] # <<>> /\ trackCalls[h2] # <<>>)
              => trackCalls[h1][1].name = trackCalls[h2][1].name

C4_Witness ==
    /\ \E h \in Handlers :
          /\ handlers[h].to = About
          /\ Len(trackCalls[h]) = 1
          /\ trackCalls[h][1].name = Str("Checkout")
    /\ \E h \in Handlers :
          /\ handlers[h].to = Shop
          /\ Len(trackCalls[h]) = 1
          /\ trackCalls[h][1].name = Str("shop")

-----------------------------------------------------------------------------
(* Claims checked under SpecUrl *)

HasDoubleSlash(s) == \E i \in 1..(Len(s) - 1) : s[i] = "/" /\ s[i + 1] = "/"

BaseString(r) == IF routerBase[r].present THEN routerBase[r].val ELSE <<>>

RECURSIVE WithoutTrailingSlashes(_)
WithoutTrailingSlashes(s) ==
    IF Len(s) > 0 /\ s[Len(s)] = "/" THEN WithoutTrailingSlashes(SubSeq(s, 1, Len(s) - 1))
    ELSE s

AllUrls ==
    UNION {{<<h, trackCalls[h][i].url>> : i \in 1..Len(trackCalls[h])} : h \in Handlers}
    \cup {<<tickQueue[i].handler, tickQueue[i].url>> : i \in 1..Len(tickQueue)}

\* C5 as stated: for every base and every fullPath the URL is the base made
\* to end with exactly one '/', followed by fullPath without its leading '/',
\* and has no duplicated separator.
C5_ExactlyOneSeparator ==
    \A hu \in AllUrls :
        LET b == BaseString(handlers[hu[1]].router)
            path == handlers[hu[1]].to.fullPath
        IN  /\ hu[2] = (WithoutTrailingSlashes(b) \o <<"/">>) \o
                       (IF Len(path) > 0 /\ path[1] = "/" THEN Tail(path) ELSE path)
            /\ ~HasDoubleSlash(hu[2])

\* C5 amended: the URL is the base (absent = ''), with a '/' appended when it
\* does not already end with one, followed by fullPath with one leading '/'
\* removed; base and path are joined by exactly one '/', and the URL has no
\* '//', whenever the base does not end with '//' and fullPath does not start
\* with '//' (and neither holds a '//' elsewhere).
C5_FullUrl ==
    \A hu \in AllUrls :
        LET b == BaseString(handlers[hu[1]].router)
            path == handlers[hu[1]].to.fullPath
            url == hu[2]
            sep == IF Len(b) > 0 /\ b[Len(b)] = "/" THEN Len(b) ELSE Len(b) + 1
            skip == IF Len(path) > 0 /\ path[1] = "/" THEN 1 ELSE 0
        IN  /\ Len(url) = sep + Len(path) - skip
            /\ \A i \in 1..Len(b) : url[i] = b[i]
            /\ url[sep] = "/"
            /\ \A i \in 1..(Len(path) - skip) : url[sep + i] = path[skip + i]
            /\ (~HasDoubleSlash(b) /\ ~HasDoubleSlash(path)) => ~HasDoubleSlash(url)
            /\ (b = <<>> /\ path = PathAB) => url = PathAB
            /\ (b = BaseApp /\ path = PathC) => url = <<"/", "a", "p", "p", "/", "c">>
            /\ (b = BaseAppSlash /\ path = PathSlashC) => url = <<"/", "a", "p", "p", "/", "c">>

C5_Witness ==
    \E h \in Handlers :
        /\ routerBase[handlers[h].router] = Base(BaseAppSlash)
        /\ handlers[h].to.fullPath = PathSlashC
        /\ Len(trackCalls[h]) = 1
        /\ trackCalls[h][1].url = <<"/", "a", "p", "p", "/", "c">>

-----------------------------------------------------------------------------
(* Claims checked under SpecLive *)

OwnCall(h, c) ==
    /\ c.name = EventName(handlers[h].to)
    /\ c.url = FullUrl(routerBase[handlers[h].router], handlers[h].to.fullPath)
    /\ c.data = AdditionalEventData(Derived(GuardOf(h), handlers[h].to, handlers[h].from),
                                    handlers[h].to)

\* C10: navigations are never superseded: every navigation that passes the
\* filter and whose deriver resolves eventually has exactly one trackView
\* call, also when later navigations complete meanwhile, and that call
\* carries the name, URL and additional event data of its own (to, from).
C10_NoSupersession ==
    /\ [](\A h \in Handlers :
             /\ Len(trackCalls[h]) <= 1
             /\ \A i \in 1..Len(trackCalls[h]) : OwnCall(h, trackCalls[h][i]))
    /\ \A h \in 1..MaxHandlers :
          (h \in Handlers /\ handlers[h].pc = "resolved")
              ~> (h \in Handlers /\ handlers[h].pc = "done" /\ Len(trackCalls[h]) = 1)

C10_Witness ==
    \E h1 \in Handlers, h2 \in Handlers :
        /\ handlers[h1].nav < handlers[h2].nav
        /\ handlers[h1].to # handlers[h2].to
        /\ handlers[h1].from # handlers[h2].from
        /\ Len(trackCalls[h1]) = 1
        /\ trackCalls[h1][1].navs >= handlers[h2].nav
        /\ OwnCall(h1, trackCalls[h1][1])
        /\ trackCalls[h1][1].phase = "tick"

====
